---- MODULE Spec2Model ----
(***************************************************************************)
(* The iterative solvers of rust_iter_solver: cg_solver, cgnr_solver and   *)
(* cgne_solver (src/src/iter_solvers/mod.rs) and pcg_solver                *)
(* (src/src/precond_iter_solvers/mod.rs), one call per behaviour.          *)
(*                                                                         *)
(* Numbers.  The scalar type F is modelled by exact rationals extended     *)
(* with the non-finite values of floating point: a number is a pair        *)
(* <<n, d>> in lowest terms with d >= 0; d = 0 gives +inf (<<1,0>>),        *)
(* -inf (<<-1,0>>) and NaN (<<0,0>>).  Rounding and the sign of zero are   *)
(* not modelled.  err = sqrt(rtr) is carried by its square, err_sq, since   *)
(* the rationals are not closed under sqrt; sqrt is monotone on [0, inf]   *)
(* and keeps NaN, so `err.abs() < tol` is decided on err_sq and tol*tol.   *)
(*                                                                         *)
(* Positions.  pc runs start -> setup -> (step -> test -> direction)* ->   *)
(* done, or ends in panic; the loop body is cut at the tolerance test so   *)
(* that the order of its statements is observable.                         *)
(*                                                                         *)
(* cgnr_solver and cgne_solver assign the (1, n) product r_t.dot(&a_mat)   *)
(* to the length-n vector zi.  ndarray's assign panics when its argument   *)
(* cannot be broadcast to the shape of self; zi_assign keeps that outcome  *)
(* and the element-wise copy side by side.                                 *)
(***************************************************************************)
EXTENDS Integers, Sequences, FiniteSets

(* ------------------------------ bounds -------------------------------- *)

\* Largest length of a vector and largest row/column count of a matrix.
MaxDim == 2

\* Largest opt.iter_limit (a u32 in the source).
MaxIter == 3

(* --------------------------- scalar type F ---------------------------- *)

Abs(i) == IF i < 0 THEN -i ELSE i

Sign(i) == IF i < 0 THEN -1 ELSE IF i > 0 THEN 1 ELSE 0

RECURSIVE GCD(_, _)
GCD(a, b) == IF b = 0 THEN a ELSE GCD(b, a % b)

\* The number n/d (d >= 0) in lowest terms.
Norm(n, d) ==
    IF d = 0 THEN <<Sign(n), 0>>
    ELSE LET g == GCD(Abs(n), d) IN <<n \div g, d \div g>>

Zero == <<0, 1>>
One == <<1, 1>>
NaN == <<0, 0>>
FromInt(i) == <<i, 1>>

IsNaN(a) == a = NaN
IsFinite(a) == a[2] > 0

Neg(a) == <<-a[1], a[2]>>

\* Sum of finite a and b over the least common denominator.
AddFinite(a, b) ==
    LET g == GCD(a[2], b[2])
    IN Norm(a[1] * (b[2] \div g) + b[1] * (a[2] \div g), (a[2] \div g) * b[2])

Add(a, b) ==
    IF IsFinite(a) /\ IsFinite(b) THEN AddFinite(a, b)
    ELSE IF IsNaN(a) \/ IsNaN(b) THEN NaN
    ELSE IF IsFinite(a) THEN b
    ELSE IF IsFinite(b) THEN a
    ELSE IF a = b THEN a ELSE NaN

Sub(a, b) == Add(a, Neg(b))

\* Product of finite a and b, cancelling across before multiplying.
MulFinite(a, b) ==
    LET g == GCD(Abs(a[1]), b[2])
        h == GCD(Abs(b[1]), a[2])
    IN <<(a[1] \div g) * (b[1] \div h), (a[2] \div h) * (b[2] \div g)>>

\* inf * 0 = NaN, inf * c = +-inf, NaN * a = NaN all fall out of Norm.
Mul(a, b) ==
    IF IsFinite(a) /\ IsFinite(b) THEN MulFinite(a, b)
    ELSE Norm(a[1] * b[1], a[2] * b[2])

Recip(a) ==
    IF a[1] > 0 THEN <<a[2], a[1]>>
    ELSE IF a[1] < 0 THEN <<-a[2], -a[1]>>
    ELSE IF a[2] = 0 THEN NaN ELSE <<1, 0>>

\* c/0 = +-inf, 0/0 = NaN, c/inf = 0, inf/inf = NaN.
Div(a, b) == Mul(a, Recip(b))

\* a < b; false whenever one side is NaN.
Less(a, b) ==
    /\ ~IsNaN(a)
    /\ ~IsNaN(b)
    /\ IF IsFinite(a) /\ IsFinite(b) THEN a[1] * b[2] < b[1] * a[2]
       ELSE IF IsFinite(a) THEN b = <<1, 0>>
       ELSE IF IsFinite(b) THEN a = <<-1, 0>>
       ELSE a = <<-1, 0>> /\ b = <<1, 0>>

(* ------------------- ndarray vectors and matrices --------------------- *)
(* A vector is a sequence of numbers, a matrix a sequence of rows.         *)

NRows(m) == Len(m)
NCols(m) == Len(m[1])

RECURSIVE DotTo(_, _, _)
DotTo(u, v, k) == IF k = 0 THEN Zero ELSE Add(DotTo(u, v, k - 1), Mul(u[k], v[k]))

\* u.dot(&v)
Dot(u, v) == DotTo(u, v, Len(u))

\* a_mat.dot(&v)
MatVec(m, v) == [i \in 1..NRows(m) |-> Dot(m[i], v)]

Column(m, j) == [i \in 1..NRows(m) |-> m[i][j]]

\* r_t.dot(&a_mat) with r_t the 1 x n copy of v: the row vector v^T m.
VecMat(v, m) == [j \in 1..NCols(m) |-> Dot(v, Column(m, j))]

\* u - v
VSub(u, v) == [i \in 1..Len(u) |-> Sub(u[i], v[i])]

\* u.scaled_add(alpha, &v): u + alpha v
ScaledAdd(u, alpha, v) == [i \in 1..Len(u) |-> Add(u[i], Mul(alpha, v[i]))]

(* ------------------------------- state -------------------------------- *)

VARIABLES
    solver,     \* which function is called
    a_mat,      \* the matrix A
    p_dim,      \* <<rows, columns>> of p_mat (its entries are never read)
    x_vec,      \* the in/out vector x
    b_vec,      \* the right-hand side b
    opt,        \* [sol_tol, iter_limit]
    x_in,       \* x as the caller supplied it (history variable)
    zi_assign,  \* outcome of assigning a 1 x n array to the length-n zi
    pc,         \* position of the call
    failed,     \* the assert! that failed, "none" otherwise
    msg_args,   \* the numbers formatted into the panic message
    ri, pki, zi,
    rtr, ztz, rt1r1, zt1z1,
    err_sq,     \* err * err
    tau, mu,
    istep       \* the loop variable _istep

vars == <<solver, a_mat, p_dim, x_vec, b_vec, opt, x_in, zi_assign, pc, failed,
          msg_args, ri, pki, zi, rtr, ztz, rt1r1, zt1z1, err_sq, tau, mu, istep>>

inputs == <<solver, a_mat, p_dim, b_vec, opt, x_in, zi_assign>>

locals == <<ri, pki, zi, rtr, ztz, rt1r1, zt1z1, err_sq, tau, mu, istep>>

(* ------------------------------ inputs -------------------------------- *)

Solvers == {"cg", "cgnr", "cgne", "pcg"}

\* Row and column counts and vector lengths of a call whose shapes disagree.
Dims == 1..MaxDim

\* Dimensions of the systems that are solved.  The exact rationals of a run on a
\* system of dimension 3 no longer fit 32-bit numerators and denominators.
SolveDims == {1, 2}

\* The matrices tried: [d1, d2, u, l] has d1 at (1,1), d2 on the rest of the
\* diagonal, u just above and l just below the diagonal, 0 elsewhere.
Mats ==
    { [d1 |-> 1, d2 |-> 1, u |-> 0, l |-> 0],     \* identity
      [d1 |-> 1, d2 |-> 1, u |-> 1, l |-> 1],     \* symmetric, singular for n = 2
      [d1 |-> 1, d2 |-> -1, u |-> 0, l |-> 0],    \* symmetric, indefinite
      [d1 |-> 1, d2 |-> 1, u |-> 1, l |-> -1],    \* nonsymmetric, nonsingular
      [d1 |-> 2, d2 |-> 2, u |-> 1, l |-> -1] }   \* nonsymmetric, nonsingular

\* Further symmetric positive definite matrices, given to cg_solver
\* ("This matrix must also be symmetric").
SymMats ==
    { [d1 |-> 2, d2 |-> 1, u |-> 1, l |-> 1],
      [d1 |-> 2, d2 |-> 1, u |-> 0, l |-> 0],
      [d1 |-> 2, d2 |-> 2, u |-> 1, l |-> 1] }

\* A further nonsymmetric matrix, given to cgnr_solver and cgne_solver.
NonsymMats == { [d1 |-> 1, d2 |-> 1, u |-> 1, l |-> 0] }

MatsFor(s) ==
    Mats \cup (IF s = "cg" THEN SymMats
               ELSE IF s \in {"cgnr", "cgne"} THEN NonsymMats ELSE {})

Entry(m, i, j) ==
    IF i = j THEN (IF i = 1 THEN m.d1 ELSE m.d2)
    ELSE IF j = i + 1 THEN m.u
    ELSE IF i = j + 1 THEN m.l
    ELSE 0

MatOf(m, nr, nc) == [i \in 1..nr |-> [j \in 1..nc |-> FromInt(Entry(m, i, j))]]

\* Entries of the initial guess and of the right-hand side.
XVals == {0, 1, 2}
BVals == {0, 1, 2}

VecOf(f) == [i \in DOMAIN f |-> FromInt(f[i])]

\* opt.sol_tol: never met, tight, loose.
Tols == {Zero, <<1, 10>>, <<3, 1>>}

(* --------------------------- the assert!s ----------------------------- *)

Check(name, ok, args) == [name |-> name, ok |-> ok, args |-> args]

\* Faulty variant of CgAsserts: the squareness assert is left out.
CgAssertsNoSquare(ndim_x, ndim_b, nrows_a, ncols_a) ==
    << Check("x_b", ndim_b = ndim_x, <<ndim_x, ndim_b>>),
       Check("b_a", ndim_b = nrows_a, <<ndim_x, ncols_a>>) >>

\* Faulty variant of CgAsserts: the b-against-A assert runs first.
CgAssertsReordered(ndim_x, ndim_b, nrows_a, ncols_a) ==
    << Check("b_a", ndim_b = nrows_a, <<ndim_x, ncols_a>>),
       Check("x_b", ndim_b = ndim_x, <<ndim_x, ndim_b>>),
       Check("a_square", nrows_a = ncols_a, <<ncols_a, nrows_a>>) >>

CgAsserts(ndim_x, ndim_b, nrows_a, ncols_a) ==
    << Check("x_b", ndim_b = ndim_x, <<ndim_x, ndim_b>>),
       Check("a_square", nrows_a = ncols_a, <<ncols_a, nrows_a>>),
       Check("b_a", ndim_b = nrows_a, <<ndim_x, ncols_a>>) >>

CgnrAsserts(ndim_x, ndim_b, nrows_a, ncols_a) ==
    << Check("x_b", ndim_b = ndim_x, <<ndim_x, ndim_b>>),
       Check("a_square", nrows_a = ncols_a, <<ncols_a, nrows_a>>),
       Check("b_a", ndim_b = nrows_a, <<ndim_x, ncols_a>>) >>

CgneAsserts(ndim_x, ndim_b, nrows_a, ncols_a) ==
    << Check("x_b", ndim_b = ndim_x, <<ndim_x, ndim_b>>),
       Check("a_square", nrows_a = ncols_a, <<ncols_a, nrows_a>>),
       Check("b_a", ndim_b = nrows_a, <<ndim_x, ncols_a>>) >>

\* Faulty variant of PcgAsserts: the preconditioner is only required to be square.
PcgAssertsNoPA(ndim_x, ndim_b, nrows_a, ncols_a, nrows_p, ncols_p) ==
    << Check("x_b", ndim_b = ndim_x, <<ndim_x, ndim_b>>),
       Check("a_square", nrows_a = ncols_a, <<ncols_a, nrows_a>>),
       Check("p_square", nrows_p = ncols_p, <<ncols_p, nrows_p>>),
       Check("b_a", ndim_b = nrows_a, <<ndim_x, ncols_a>>) >>

PcgAsserts(ndim_x, ndim_b, nrows_a, ncols_a, nrows_p, ncols_p) ==
    << Check("x_b", ndim_b = ndim_x, <<ndim_x, ndim_b>>),
       Check("a_square", nrows_a = ncols_a, <<ncols_a, nrows_a>>),
       Check("p_square", nrows_p = ncols_p, <<ncols_p, nrows_p>>),
       Check("p_a", (ncols_p = ncols_a) /\ (nrows_p = nrows_a),
             <<ncols_p, nrows_p, ncols_a, nrows_a>>),
       Check("b_a", ndim_b = nrows_a, <<ndim_x, ncols_a>>) >>

\* The asserts of the called function, in program order.
Asserts ==
    CASE solver = "cg" -> CgAsserts(Len(x_vec), Len(b_vec), NRows(a_mat), NCols(a_mat))
      [] solver = "cgnr" -> CgnrAsserts(Len(x_vec), Len(b_vec), NRows(a_mat), NCols(a_mat))
      [] solver = "cgne" -> CgneAsserts(Len(x_vec), Len(b_vec), NRows(a_mat), NCols(a_mat))
      [] solver = "pcg" -> PcgAsserts(Len(x_vec), Len(b_vec), NRows(a_mat), NCols(a_mat),
                                      p_dim[1], p_dim[2])

\* Index of the first assert whose condition is false, 0 when all hold.
FirstFailed(cs) ==
    IF \A k \in 1..Len(cs) : cs[k].ok THEN 0
    ELSE CHOOSE k \in 1..Len(cs) : ~cs[k].ok /\ \A h \in 1..(k - 1) : cs[h].ok

(* ---------------------------- the call -------------------------------- *)

\* A call whose shapes agree: every array has dimension n.
ConsistentCall ==
    \E n \in SolveDims, m \in MatsFor(solver) :
        /\ a_mat = MatOf(m, n, n)
        /\ p_dim = IF solver = "pcg" THEN <<n, n>> ELSE <<0, 0>>
        /\ \E f \in [1..n -> XVals] : x_vec = VecOf(f)
        /\ \E f \in [1..n -> BVals] : b_vec = VecOf(f)

\* The 1 x 1 system 5 x = 10 started at 0.
ScenarioCall ==
    /\ a_mat = << <<FromInt(5)>> >>
    /\ p_dim = IF solver = "pcg" THEN <<1, 1>> ELSE <<0, 0>>
    /\ x_vec = <<FromInt(0)>>
    /\ b_vec = <<FromInt(10)>>

\* A call whose shapes disagree somewhere; x and b are filled with one value each.
MismatchedCall ==
    \E nx \in Dims, nb \in Dims, nr \in Dims, nc \in Dims, m \in Mats :
        /\ p_dim \in (IF solver = "pcg" THEN Dims \X Dims ELSE {<<0, 0>>})
        /\ ~(nx = nb /\ nr = nc /\ nb = nr /\ p_dim \in {<<0, 0>>, <<nr, nc>>})
        /\ a_mat = MatOf(m, nr, nc)
        /\ \E v \in XVals : x_vec = [i \in 1..nx |-> FromInt(v)]
        /\ \E v \in BVals : b_vec = [i \in 1..nb |-> FromInt(v)]

Init ==
    /\ solver \in Solvers
    /\ ConsistentCall \/ ScenarioCall \/ MismatchedCall
    /\ opt \in [sol_tol : Tols, iter_limit : 0..MaxIter]
    /\ x_in = x_vec
    /\ zi_assign \in (IF solver \in {"cgnr", "cgne"} THEN {"panic", "copy"} ELSE {"copy"})
    /\ pc = "start"
    /\ failed = "none"
    /\ msg_args = <<>>
    /\ ri = <<>> /\ pki = <<>> /\ zi = <<>>
    /\ rtr = Zero /\ ztz = Zero /\ rt1r1 = Zero /\ zt1z1 = Zero
    /\ err_sq = Zero
    /\ tau = Zero /\ mu = Zero
    /\ istep = 0

\* The dimension asserts at the head of each function: the first false one
\* panics with its message arguments.
Validate ==
    /\ pc = "start"
    /\ LET cs == Asserts
           k == FirstFailed(cs)
       IN IF k = 0
          THEN /\ pc' = "setup"
               /\ UNCHANGED <<failed, msg_args>>
          ELSE /\ pc' = "panic"
               /\ failed' = cs[k].name
               /\ msg_args' = cs[k].args
    /\ UNCHANGED <<inputs, x_vec, locals>>

\* for _istep in 0..opt.iter_limit: enter the body or fall through to `err`.
LoopTop(i) == IF i < opt.iter_limit THEN "step" ELSE "done"

\* err.abs() < tol, on the squares.
Converged(e2, tol) == Less(Zero, tol) /\ Less(e2, Mul(tol, tol))

\* Faulty variant of Test: the test never leaves the loop.
TestNoBreak ==
    /\ pc = "test"
    /\ pc' = "direction"
    /\ UNCHANGED <<inputs, x_vec, failed, msg_args, locals>>

\* The tolerance test of the loop body: break, or go on to the direction update.
Test ==
    /\ pc = "test"
    /\ pc' = IF Converged(err_sq, opt.sol_tol) THEN "done" ELSE "direction"
    /\ UNCHANGED <<inputs, x_vec, failed, msg_args, locals>>

(* cg_solver *)

CgSetup ==
    /\ pc = "setup" /\ solver = "cg"
    /\ ri' = VSub(MatVec(a_mat, x_vec), b_vec)
    /\ pki' = ri'
    /\ rtr' = Dot(ri', ri')
    /\ err_sq' = rtr'
    /\ rt1r1' = rtr'
    /\ pc' = LoopTop(0)
    /\ UNCHANGED <<inputs, x_vec, failed, msg_args, zi, ztz, zt1z1, tau, mu, istep>>

CgStep ==
    /\ pc = "step" /\ solver = "cg"
    /\ LET a_pk == MatVec(a_mat, pki)
           pkt_a_pk == Dot(pki, a_pk)
       IN /\ mu' = Div(rtr, pkt_a_pk)
          /\ x_vec' = ScaledAdd(x_vec, mu', pki)
          /\ ri' = ScaledAdd(ri, Neg(mu'), a_pk)
    /\ rtr' = Dot(ri', ri')
    /\ err_sq' = rtr'
    /\ pc' = "test"
    /\ UNCHANGED <<inputs, failed, msg_args, pki, zi, ztz, rt1r1, zt1z1, tau, istep>>

CgDirection ==
    /\ pc = "direction" /\ solver = "cg"
    /\ tau' = Div(rtr, rt1r1)
    /\ rt1r1' = rtr
    /\ pki' = [i \in 1..Len(pki) |-> Add(ri[i], Mul(tau', pki[i]))]
    /\ istep' = istep + 1
    /\ pc' = LoopTop(istep + 1)
    /\ UNCHANGED <<inputs, x_vec, failed, msg_args, ri, zi, rtr, ztz, zt1z1, err_sq, mu>>

(* cgnr_solver *)

\* zi.assign(&r_t.dot(&a_mat)): the product has shape (1, n), zi has shape (n).
\* ndarray's assign broadcasts its argument to the shape of self and panics
\* when it cannot; its broadcasting rule never lowers the number of axes.  The
\* crate is not part of the sources, so zi_assign keeps both outcomes: the
\* panic, and the element-wise copy the comments of the code intend.
CgnrSetup ==
    /\ pc = "setup" /\ solver = "cgnr"
    /\ ri' = VSub(MatVec(a_mat, x_vec), b_vec)
    /\ IF zi_assign = "panic"
       THEN /\ pc' = "panic"
            /\ failed' = "broadcast"
            /\ UNCHANGED <<zi, pki, ztz, rtr, err_sq, zt1z1>>
       ELSE /\ zi' = VecMat(ri', a_mat)
            /\ pki' = zi'
            /\ ztz' = Dot(zi', zi')
            /\ rtr' = Dot(ri', ri')
            /\ err_sq' = rtr'
            /\ zt1z1' = ztz'
            /\ pc' = LoopTop(0)
            /\ UNCHANGED failed
    /\ UNCHANGED <<inputs, x_vec, msg_args, rt1r1, tau, mu, istep>>

CgnrStep ==
    /\ pc = "step" /\ solver = "cgnr"
    /\ LET a_pk == MatVec(a_mat, pki)
           a_pk_t_a_pk == Dot(a_pk, a_pk)
       IN /\ mu' = Div(ztz, a_pk_t_a_pk)
          /\ x_vec' = ScaledAdd(x_vec, mu', pki)
          /\ ri' = ScaledAdd(ri, Neg(mu'), a_pk)
    /\ rtr' = Dot(ri', ri')
    /\ err_sq' = rtr'
    /\ pc' = "test"
    /\ UNCHANGED <<inputs, failed, msg_args, pki, zi, ztz, rt1r1, zt1z1, tau, istep>>

CgnrDirection ==
    /\ pc = "direction" /\ solver = "cgnr"
    /\ zi' = VecMat(ri, a_mat)
    /\ ztz' = Dot(zi', zi')
    /\ tau' = Div(ztz', zt1z1)
    /\ zt1z1' = ztz'
    /\ pki' = [i \in 1..Len(pki) |-> Add(zi'[i], Mul(tau', pki[i]))]
    /\ istep' = istep + 1
    /\ pc' = LoopTop(istep + 1)
    /\ UNCHANGED <<inputs, x_vec, failed, msg_args, ri, rtr, rt1r1, err_sq, mu>>

(* cgne_solver *)

\* Line 245 is the same assignment as line 144 of cgnr_solver.
CgneSetup ==
    /\ pc = "setup" /\ solver = "cgne"
    /\ ri' = VSub(MatVec(a_mat, x_vec), b_vec)
    /\ IF zi_assign = "panic"
       THEN /\ pc' = "panic"
            /\ failed' = "broadcast"
            /\ UNCHANGED <<zi, pki, rtr, err_sq, rt1r1>>
       ELSE /\ zi' = VecMat(ri', a_mat)
            /\ pki' = zi'
            /\ rtr' = Dot(ri', ri')
            /\ err_sq' = rtr'
            /\ rt1r1' = rtr'
            /\ pc' = LoopTop(0)
            /\ UNCHANGED failed
    /\ UNCHANGED <<inputs, x_vec, msg_args, ztz, zt1z1, tau, mu, istep>>

CgneStep ==
    /\ pc = "step" /\ solver = "cgne"
    /\ LET a_pk == MatVec(a_mat, pki)
           pki_t_pki == Dot(pki, pki)
       IN /\ mu' = Div(rtr, pki_t_pki)
          /\ x_vec' = ScaledAdd(x_vec, mu', pki)
          /\ ri' = ScaledAdd(ri, Neg(mu'), a_pk)
    /\ rtr' = Dot(ri', ri')
    /\ err_sq' = rtr'
    /\ pc' = "test"
    /\ UNCHANGED <<inputs, failed, msg_args, pki, zi, ztz, rt1r1, zt1z1, tau, istep>>

CgneDirection ==
    /\ pc = "direction" /\ solver = "cgne"
    /\ zi' = VecMat(ri, a_mat)
    /\ tau' = Div(rtr, rt1r1)
    /\ rt1r1' = rtr
    /\ pki' = [i \in 1..Len(pki) |-> Add(zi'[i], Mul(tau', pki[i]))]
    /\ istep' = istep + 1
    /\ pc' = LoopTop(istep + 1)
    /\ UNCHANGED <<inputs, x_vec, failed, msg_args, ri, rtr, ztz, zt1z1, err_sq, mu>>

(* pcg_solver *)

\* let err: F = F::one(); ... err
PcgReturn ==
    /\ pc = "setup" /\ solver = "pcg"
    /\ err_sq' = One
    /\ pc' = "done"
    /\ UNCHANGED <<inputs, x_vec, failed, msg_args, ri, pki, zi, rtr, ztz, rt1r1,
                   zt1z1, tau, mu, istep>>

Next ==
    \/ Validate
    \/ CgSetup \/ CgStep \/ CgDirection
    \/ CgnrSetup \/ CgnrStep \/ CgnrDirection
    \/ CgneSetup \/ CgneStep \/ CgneDirection
    \/ Test
    \/ PcgReturn

Spec == Init /\ [][Next]_vars

(* ------------------------------ claims -------------------------------- *)

Iterative == solver \in {"cg", "cgnr", "cgne"}

\* len(x) = len(b), A square, len(b) = rows(A).
ValidDims ==
    /\ Len(x_vec) = Len(b_vec)
    /\ NRows(a_mat) = NCols(a_mat)
    /\ Len(b_vec) = NRows(a_mat)

\* The preconditioner is square and has the shape of A.
ValidPrecond == p_dim[1] = p_dim[2] /\ p_dim = <<NRows(a_mat), NCols(a_mat)>>

Ended == pc \in {"done", "panic"}

\* The loop was left by `break`.
Broke == pc = "done" /\ Iterative /\ istep < opt.iter_limit

\* Number of loop bodies entered so far.
StepsRun == IF pc \in {"test", "direction"} \/ Broke THEN istep + 1 ELSE istep

\* A x - b and its squared Euclidean norm, for the x at hand and for the x supplied.
ResidualOf(x) == VSub(MatVec(a_mat, x), b_vec)
NormSq(v) == Dot(v, v)

IsSymmetric(m) == \A i \in 1..NRows(m), j \in 1..NCols(m) : m[i][j] = m[j][i]

\* Determinant of a matrix of dimension 1 or 2.
Det(m) ==
    IF NRows(m) = 1 THEN m[1][1]
    ELSE Sub(Mul(m[1][1], m[2][2]), Mul(m[1][2], m[2][1]))

\* Symmetric positive definite (dimension 1 or 2): positive leading minors.
IsSPD(m) == IsSymmetric(m) /\ Less(Zero, m[1][1]) /\ Less(Zero, Det(m))

HasNaN(v) == \E i \in 1..Len(v) : IsNaN(v[i])

\* C1: when cg_solver, cgnr_solver or cgne_solver is called with len(x) # len(b),
\* a non-square A or len(b) # rows(A), the call panics in one of its dimension
\* asserts, no setup or loop step has run and x is exactly what the caller supplied.
C1_MismatchFailsBeforeIterating ==
    (Iterative /\ ~ValidDims /\ pc # "start")
        => /\ pc = "panic"
           /\ failed \in {"x_b", "a_square", "b_a"}
           /\ x_vec = x_in
           /\ ri = <<>> /\ pki = <<>>
           /\ mu = Zero /\ istep = 0

C1_Witness ==
    /\ solver = "cgne" /\ pc = "panic" /\ failed = "a_square"
    /\ Len(x_vec) = Len(b_vec) /\ x_vec = x_in

\* C2: pcg_solver panics whenever one of the three common conditions fails or the
\* preconditioner is not square or has not the shape of A; it gets past its
\* asserts, and returns, only when all five conditions hold.
C2_PcgValidation ==
    (solver = "pcg" /\ pc # "start")
        => /\ (pc = "panic") <=> ~(ValidDims /\ ValidPrecond)
           /\ (pc \in {"setup", "done"}) <=> (ValidDims /\ ValidPrecond)
           /\ pc = "panic" => failed \in {"x_b", "a_square", "p_square", "p_a", "b_a"}

C2_Witness ==
    /\ solver = "pcg" /\ pc = "panic" /\ failed = "p_a"
    /\ ValidDims /\ p_dim[1] = p_dim[2]

\* C3: for symmetric positive definite A, tolerance > 0 and an iteration cap of at
\* least n, cg_solver returns with ||A x - b|| < tolerance after at most n steps;
\* the system 5 x = 10 started at 0 ends at x = 2 after one step with residual 0.
C3_CgSolves ==
    (solver = "cg" /\ pc = "done" /\ ValidDims /\ IsSPD(a_mat)
        /\ Less(Zero, opt.sol_tol) /\ opt.iter_limit >= Len(x_vec))
        => /\ StepsRun <= Len(x_vec)
           /\ Less(NormSq(ResidualOf(x_vec)), Mul(opt.sol_tol, opt.sol_tol))
           /\ (a_mat = << <<FromInt(5)>> >> /\ b_vec = <<FromInt(10)>> /\ x_in = <<Zero>>)
                => (x_vec = <<FromInt(2)>> /\ StepsRun = 1 /\ err_sq = Zero)

\* C4: in cg_solver the maintained residual ri equals A x - b for the current x
\* after every step, and the value returned is the norm of A x - b at the x left
\* in the in/out vector.
C4_ResidualIsTrueResidual ==
    (solver = "cg" /\ pc \in {"step", "test", "direction", "done"})
        => /\ ri = ResidualOf(x_vec)
           /\ err_sq = NormSq(ResidualOf(x_vec))

\* C5: with iter_limit = 0 and valid dimensions, cg_solver, cgnr_solver and
\* cgne_solver each return the norm of A x0 - b and leave x equal to x0.
C5_ZeroCapReturnsInitialResidual ==
    (Iterative /\ ValidDims /\ opt.iter_limit = 0 /\ Ended)
        => /\ pc = "done"
           /\ err_sq = NormSq(ResidualOf(x_in))
           /\ x_vec = x_in

C7_ReturnsWithinCap ==
    (Iterative /\ ValidDims /\ Ended)
        => /\ pc = "done"
           /\ StepsRun <= opt.iter_limit
           /\ ~Broke => StepsRun = opt.iter_limit
           /\ err_sq = rtr

\* C8: in every step the tolerance test comes right after the updates of x and of
\* the residual and before tau and the search direction are recomputed; when it
\* succeeds the call returns at once with pki, the stored previous inner product
\* and everything else untouched, and a direction update only ever follows a
\* failed test.
C8_TestBeforeDirection ==
    [][ /\ (pc' = "test") => (pc = "step" /\ err_sq' = rtr')
        /\ (pc = "step") => (pc' = "test" /\ UNCHANGED <<pki, tau, rt1r1, zt1z1, istep>>)
        /\ (pc = "test" /\ Converged(err_sq, opt.sol_tol))
              => (pc' = "done" /\ UNCHANGED <<x_vec, locals>>)
        /\ (pc = "test" /\ ~Converged(err_sq, opt.sol_tol))
              => (pc' = "direction" /\ UNCHANGED <<x_vec, locals>>)
        /\ (pc # "setup" /\ <<pki, tau, rt1r1, zt1z1, istep>>' # <<pki, tau, rt1r1, zt1z1, istep>>)
              => (pc = "direction" /\ ~Converged(err_sq, opt.sol_tol)
                  /\ UNCHANGED <<x_vec, ri, rtr, err_sq>>)
        /\ (pc = "done") => UNCHANGED vars ]_vars

C8_Witness ==
    /\ solver = "cgnr" /\ Broke /\ istep >= 1
    /\ Converged(err_sq, opt.sol_tol)
    /\ x_vec # x_in

\* C9: when a dimension assert fails, the numbers in its message are the values of
\* the dimensions it compared: (len(x), len(b)), (cols(A), rows(A)), and for the
\* assert len(b) = rows(A) the pair printed, (len(x), cols(A)), equals
\* (len(b), rows(A)); the preconditioner asserts print the dimensions of P (and A).
C9_MessageReportsComparedDims ==
    (pc = "panic" /\ failed # "broadcast")
        => /\ failed = "x_b" =>
                (msg_args = <<Len(x_vec), Len(b_vec)>> /\ Len(x_vec) # Len(b_vec))
           /\ failed = "a_square" =>
                (msg_args = <<NCols(a_mat), NRows(a_mat)>> /\ NCols(a_mat) # NRows(a_mat))
           /\ failed = "b_a" =>
                (msg_args = <<Len(b_vec), NRows(a_mat)>> /\ Len(b_vec) # NRows(a_mat))
           /\ failed = "p_square" =>
                (msg_args = <<p_dim[2], p_dim[1]>> /\ p_dim[2] # p_dim[1])
           /\ failed = "p_a" =>
                (msg_args = <<p_dim[2], p_dim[1], NCols(a_mat), NRows(a_mat)>>
                 /\ <<p_dim[2], p_dim[1]>> # <<NCols(a_mat), NRows(a_mat)>>)

C9_Witness ==
    /\ solver = "cg" /\ pc = "panic" /\ failed = "b_a"
    /\ msg_args = <<Len(x_vec), NCols(a_mat)>>

\* C10: cg_solver, cgnr_solver and cgne_solver test the tolerance only inside the
\* loop: with valid dimensions and iter_limit >= 1 the first step always runs, and
\* a call started at an exact solution (A x0 = b) divides 0 by 0 and leaves NaN
\* in x instead of x0.
C10_FirstStepAlwaysRuns ==
    (Iterative /\ ValidDims /\ opt.iter_limit >= 1 /\ Ended)
        => /\ StepsRun >= 1
           /\ NormSq(ResidualOf(x_in)) = Zero => (HasNaN(x_vec) /\ x_vec # x_in)

====
